---- MODULE Spec2Model ----
(***************************************************************************)
(* Model of dev-tools/build_release.py: the release orchestrator of an     *)
(* Elasticsearch plugin.  The program is sequential; its state is the      *)
(* local git repository (branch heads, tags, checked-out branch, working   *)
(* tree), the remote repository, the blob store, the mailer, and the       *)
(* program counter of __main__.  Every external command (run(), os.system, *)
(* SMTP, the issue tracker) may fail; a failure raises and is handled the  *)
(* way the code's try/except/finally blocks handle it.                     *)
(*                                                                         *)
(* Text is modelled as a sequence of tokens: one token per character for   *)
(* digits and '.', and the literal "-SNAPSHOT" as a single token.          *)
(***************************************************************************)
EXTENDS Integers, Sequences, FiniteSets, TLC

VARIABLES
    pc,               \* position in the script
    args,             \* parsed command line: branch, tests, dryrun, mail, check
    env,              \* os.environ: which variables are set
    git,              \* local repository: head (branch -> revision), tags (name ->
                      \* revision), cur (checked-out branch), wt (working tree),
                      \* tree (revision -> committed contents)
    origin,           \* remote repository: head (branch -> revision), tags (names)
    release_version,  \* found in pom.xml
    snapshot_version, \* next development version
    master_hash,      \* recorded baseline of master     (0: not recorded)
    version_hash,     \* recorded baseline of src_branch (0: not recorded)
    success,          \* the success flag of __main__
    exc,              \* the exception in flight ("none" when there is none)
    exit_status,      \* the process exit status, meaningful when pc = "exit"
    open_issues,      \* open tracker issues labelled with the release version
    trace,            \* every effect performed so far, in order
    fn                \* the call in progress when a helper function is run on
                      \* its own (op = "none" during a release run)

vars == <<pc, args, env, git, origin, release_version, snapshot_version,
          master_hash, version_hash, success, exc, exit_status, open_issues, trace,
          fn>>

\* ------------------------------------------------------------------ bounds
\* The tracker reports between 0 and MaxOpenIssues open issues for the version.
MaxOpenIssues == 1
\* The remote may be up to MaxRemoteAhead commits ahead of a local branch.
MaxRemoteAhead == 1
\* lines of a file given to process_file
MaxLines == 3
\* closed issues of the tracker seen by prepare_email
MaxIssues == 2

\* ------------------------------------------------------------------ text
SNAPSHOT == "-SNAPSHOT"
Digits == <<"0", "1", "2", "3", "4", "5", "6", "7", "8", "9">>

IsDigit(c) == \E i \in 1..10 : Digits[i] = c
DigitVal(c) == (CHOOSE i \in 1..10 : Digits[i] = c) - 1

\* str(n) for a non-negative integer
RECURSIVE IntToStr(_)
IntToStr(n) == IF n < 10 THEN <<Digits[n + 1]>>
               ELSE IntToStr(n \div 10) \o <<Digits[(n % 10) + 1]>>

\* re.findall(r'\d+', version) mapped through int: scanning left to right,
\* acc is the value of the digit run being read (-1: not inside a run).
RECURSIVE FindDigitRuns(_, _, _)
FindDigitRuns(s, i, acc) ==
    IF i > Len(s) THEN (IF acc >= 0 THEN <<acc>> ELSE <<>>)
    ELSE IF IsDigit(s[i])
         THEN FindDigitRuns(s, i + 1, (IF acc >= 0 THEN acc * 10 ELSE 0) + DigitVal(s[i]))
         ELSE (IF acc >= 0 THEN <<acc>> ELSE <<>>) \o FindDigitRuns(s, i + 1, -1)

split_version_to_digits(version) == FindDigitRuns(version, 1, -1)

IsPrefixAt(s, i, p) == i + Len(p) - 1 <= Len(s) /\ SubSeq(s, i, i + Len(p) - 1) = p

\* str.replace(old, new): every non-overlapping occurrence, left to right
RECURSIVE StrReplaceFrom(_, _, _, _)
StrReplaceFrom(s, i, old, new) ==
    IF i > Len(s) THEN <<>>
    ELSE IF IsPrefixAt(s, i, old) THEN new \o StrReplaceFrom(s, i + Len(old), old, new)
         ELSE <<s[i]>> \o StrReplaceFrom(s, i + 1, old, new)

StrReplace(s, old, new) == StrReplaceFrom(s, 1, old, new)

DottedTriple(a, b, c) == IntToStr(a) \o <<".">> \o IntToStr(b) \o <<".">> \o IntToStr(c)

guess_snapshot(version) ==
    LET digits == split_version_to_digits(version)
        source == DottedTriple(digits[1], digits[2], digits[3])
        destination == DottedTriple(digits[1], digits[2], digits[3] + 1)
    IN  StrReplace(version, source, destination)

release_branch_without_source(branchsource, version) ==
    <<"release_branch_">> \o version
release_branch(branchsource, version) ==
    <<"release_branch_">> \o branchsource \o <<"_">> \o version

\* the tag name 'v%s' % release
TagName(release) == <<"v">> \o release

\* '%s-SNAPSHOT' % version
WithSnapshot(version) == version \o <<SNAPSHOT>>

\* re.search(r'<version>(.+)-SNAPSHOT</version>', line) on the line
\* <version>v</version>: the group must be non-empty.
HasSnapshotVersion(v) == Len(v) >= 2 /\ v[Len(v)] = SNAPSHOT
SnapshotGroup(v) == SubSeq(v, 1, Len(v) - 1)

\* elasticsearch_version.find('-SNAPSHOT') != -1
ContainsSnapshotAtStart(v) == Len(v) >= 1 /\ v[1] = SNAPSHOT
ContainsSnapshot(v) == \E i \in 1..Len(v) : v[i] = SNAPSHOT

MASTER == <<"master">>

\* get_doc_anchor: '#version-%s%s%s-for-elasticsearch-%s%s'
get_doc_anchor_without_minor(release, esversion) ==
    LET plugin_digits == split_version_to_digits(release)
        es_digits == split_version_to_digits(esversion)
    IN  <<"#version-">> \o IntToStr(plugin_digits[1]) \o IntToStr(plugin_digits[2])
            \o IntToStr(plugin_digits[3]) \o <<"-for-elasticsearch-">>
            \o IntToStr(es_digits[1])
get_doc_anchor(release, esversion) ==
    LET plugin_digits == split_version_to_digits(release)
        es_digits == split_version_to_digits(esversion)
    IN  <<"#version-">> \o IntToStr(plugin_digits[1]) \o IntToStr(plugin_digits[2])
            \o IntToStr(plugin_digits[3]) \o <<"-for-elasticsearch-">>
            \o IntToStr(es_digits[1]) \o IntToStr(es_digits[2])

\* ------------------------------------------------------------------ files
\* The tracked files, as far as the script reads and rewrites them:
\*   pom      the value of pom.xml's <version> line
\*   es       the value of pom.xml's <elasticsearch.version> line
\*   heading  README.md's "## Version ... for Elasticsearch: ..." line
\*   row      README.md's table row of the source branch
\*   install  README.md's "bin/plugin install" line

\* line.replace('<version>R-SNAPSHOT</version>', '<version>R</version>')
remove_maven_snapshot(c, release) ==
    [c EXCEPT !.pom = IF @ = WithSnapshot(release) THEN release ELSE @]

\* line.replace('<version>R</version>', '<version>S-SNAPSHOT</version>')
add_maven_snapshot_without_marker(c, release, snapshot) ==
    [c EXCEPT !.pom = IF @ = release THEN snapshot ELSE @]
add_maven_snapshot(c, release, snapshot) ==
    [c EXCEPT !.pom = IF @ = release THEN WithSnapshot(snapshot) ELSE @]

\* line.find(pattern) >= 0
Contains(line, pattern) == \E i \in 1..Len(line) : IsPrefixAt(line, i, pattern)

\* re.search('## Version (.)+ for Elasticsearch: (.)+', line)
IsVersionHeading(line) ==
    \E i, j \in 1..Len(line) :
        /\ line[i] = "## Version " /\ line[j] = " for Elasticsearch: "
        /\ i + 1 < j /\ j < Len(line)

\* lines 246-259: every line of README.md that matches the heading pattern
\* becomes '## Version %s for Elasticsearch: %s.%s\n'
update_documentation_in_released_branch(c, release, esversion) ==
    LET es_digits == split_version_to_digits(esversion)
        replacement == <<"## Version ">> \o release \o <<" for Elasticsearch: ">>
                           \o IntToStr(es_digits[1]) \o <<".">> \o IntToStr(es_digits[2])
        callback(line) == IF IsVersionHeading(line) THEN replacement ELSE line
    IN  [c EXCEPT !.heading = callback(@), !.row = callback(@), !.install = callback(@)]

\* lines 266-278: every line of README.md that contains the name of the
\* branch becomes the table row linking the release
update_documentation_to_released_version(c, release, branch, esversion) ==
    LET replacement == <<"| ">> \o branch \o <<" | ">> \o release \o <<" | tree/v">>
                           \o release \o <<"/">> \o get_doc_anchor(release, esversion)
        callback(line) == IF Contains(line, branch) THEN replacement ELSE line
    IN  [c EXCEPT !.heading = callback(@), !.row = callback(@), !.install = callback(@)]

\* lines 282-289: re.sub('bin/plugin -?install elasticsearch/<artifact>/.+',
\* 'bin/plugin install elasticsearch/<artifact>/<release>', line).  The
\* command and the path 'elasticsearch/<artifact>/' are one token; the
\* pattern needs at least one character after it and takes the rest of the line.
InstallCommands == {"bin/plugin install ", "bin/plugin -install "}
InstallMatch(line) ==
    {i \in 1..(Len(line) - 1) : line[i] \in InstallCommands}
set_install_instructions(c, release) ==
    LET callback(line) ==
            IF InstallMatch(line) = {} THEN line
            ELSE LET i == CHOOSE k \in InstallMatch(line) :
                              \A l \in InstallMatch(line) : k <= l
                 IN  SubSeq(line, 1, i - 1) \o <<"bin/plugin install ">> \o release
    IN  [c EXCEPT !.heading = callback(@), !.row = callback(@), !.install = callback(@)]

\* ------------------------------------------------------------------ git
Without(f, x) == [y \in DOMAIN f \ {x} |-> f[y]]

Dirty(g) == g.wt # g.tree[g.head[g.cur]]

\* git rev-parse --verify HEAD
get_head_hash(g) == g.head[g.cur]

\* git checkout <b>: uncommitted changes are carried along
Checkout(g, b) ==
    [g EXCEPT !.cur = b, !.wt = IF Dirty(g) THEN g.wt ELSE g.tree[g.head[b]]]

\* git pull --rebase <remote> <branch>, the local branch having no commit of
\* its own: the branch moves to the remote's head
PullRebase(g, rev) ==
    [g EXCEPT !.head[g.cur] = rev, !.wt = g.tree[rev]]

\* git checkout -b <name>
CheckoutNewBranch(g, name) ==
    [g EXCEPT !.head = (name :> g.head[g.cur]) @@ g.head, !.cur = name]

\* git commit: a new revision holding the working tree
Commit(g) ==
    [g EXCEPT !.tree = Append(g.tree, g.wt), !.head[g.cur] = Len(g.tree) + 1]

\* git merge <b> into the checked-out branch (a fast-forward: the script is
\* the only writer of both branches)
Merge(g, b) ==
    [g EXCEPT !.head[g.cur] = g.head[b], !.wt = g.tree[g.head[b]]]

\* git tag -a <name>
TagCreateOnMaster(g, name) == [g EXCEPT !.tags = (name :> g.head[MASTER]) @@ g.tags]
TagCreate(g, name) == [g EXCEPT !.tags = (name :> g.head[g.cur]) @@ g.tags]

\* git tag -d <name>
TagDelete(g, name) == [g EXCEPT !.tags = Without(g.tags, name)]

\* git reset --hard <rev>
ResetHardToHead(g, rev) == [g EXCEPT !.wt = g.tree[g.head[g.cur]]]
ResetHard(g, rev) == [g EXCEPT !.head[g.cur] = rev, !.wt = g.tree[rev]]

\* git branch -D <name>
BranchDelete(g, name) == [g EXCEPT !.head = Without(g.head, name)]

\* ------------------------------------------------------------------ inputs
SrcBranches == {MASTER, <<"1.x">>}
PomVersions == {<<"2", ".", "5", ".", "0", SNAPSHOT>>, <<"2", ".", "5", ".", "0">>}
EsVersions == {<<"1", ".", "4", ".", "0">>, <<"3", ".", "0", ".", "0", SNAPSHOT>>}
\* what the operator types at "Enter next snapshot version": nothing, or a version
SnapshotAnswers == {<<>>, <<"2", ".", "6", ".", "0">>}

InitialContent(pom, es) ==
    [pom |-> pom, es |-> es,
     heading |-> <<"## Version ">> \o pom \o <<" for Elasticsearch: ", "1.x">>,
     row |-> <<"| ", "1.x", " | Build from source |">>,
     install |-> <<"bin/plugin install ", "2", ".", "4", ".", "0">>]

Init ==
    /\ pc = "load"
    /\ args \in [branch : SrcBranches, tests : BOOLEAN, dryrun : BOOLEAN,
                 mail : BOOLEAN, check : BOOLEAN]
    /\ env \in [JAVA_HOME : BOOLEAN, AWS : BOOLEAN, MAIL_SENDER : BOOLEAN,
                GITHUB : BOOLEAN]
    /\ \E pom \in PomVersions, es \in EsVersions, tagged \in BOOLEAN :
          LET c == InitialContent(pom, es)
              hd == (MASTER :> 1) @@ (args.branch :> 2)
          IN  /\ tagged => HasSnapshotVersion(pom)
              /\ git = [head |-> hd,
                        tags |-> IF tagged THEN (TagName(SnapshotGroup(pom)) :> 2) ELSE <<>>,
                        cur |-> args.branch,
                        wt |-> c,
                        tree |-> <<c, c>>]
              /\ origin = [head |-> hd, tags |-> {}]
    /\ open_issues \in 0..MaxOpenIssues
    /\ release_version = <<>>
    /\ snapshot_version = <<>>
    /\ master_hash = 0
    /\ version_hash = 0
    /\ success = FALSE
    /\ exc = "none"
    /\ exit_status = 0
    /\ trace = <<>>
    /\ fn = [op |-> "none"]

\* ------------------------------------------------------------------ control
src_branch == args.branch
dry_run == args.dryrun
elasticsearch_version == git.wt.es

Did(ev) == \E i \in 1..Len(trace) : trace[i] = ev

\* the status of a process that ends with the uncaught exception e: 1 after
\* the traceback; after a KeyboardInterrupt the interpreter ends itself with
\* SIGINT, which a shell reports as 130
UncaughtStatus(e) ==
    CASE e = "none" -> 0
      [] e = "KeyboardInterrupt" -> 130
      [] OTHER -> 1

\* an exception outside the try blocks ends the process with a traceback
Abort(e, evs) ==
    /\ pc' = "exit"
    /\ exc' = e
    /\ exit_status' = UncaughtStatus(e)
    /\ trace' = trace \o evs

\* the next statement is reached
Goto(label, evs) ==
    /\ pc' = label
    /\ trace' = trace \o evs
    /\ UNCHANGED <<exc, exit_status>>

\* lines 127-133: JAVA_HOME is read when the module is loaded
ModuleLoad ==
    /\ pc = "load"
    /\ IF env.JAVA_HOME THEN Goto("main", <<>>) ELSE Abort("RuntimeError", <<>>)
    /\ UNCHANGED <<fn, args, env, git, origin, release_version, snapshot_version,
                   master_hash, version_hash, success, open_issues>>

\* sys.exit(0)
Exit0(evs) ==
    /\ pc' = "exit"
    /\ exit_status' = 0
    /\ trace' = trace \o evs
    /\ UNCHANGED exc

\* lines 831-835: except RuntimeError of the first try block: the log is
\* printed and the process exits with sys.exit(-1)
ExitMinus1(evs) ==
    /\ pc' = "exit"
    /\ exit_status' = 255
    /\ exc' = "none"
    /\ trace' = trace \o evs

\* an exception inside the second try block: control passes to finally
Raise(e, evs) ==
    /\ pc' = "finally"
    /\ exc' = e
    /\ trace' = trace \o evs
    /\ UNCHANGED exit_status

\* an exception inside the finally block replaces the one in flight
RaiseInFinally(e, evs) ==
    /\ pc' = "exit"
    /\ exc' = e
    /\ exit_status' = UncaughtStatus(e)
    /\ trace' = trace \o evs

\* lines 692-733: check_environment_and_commandline_tools prints OK or NOT OK
\* for each group of diagnostics (environment variables, command line tools,
\* java and maven versions); the exceptions are caught by run_and_print
DiagnosticGroups == <<"env", "commands", "java">>
check_environment_and_commandline_tools(failed) ==
    <<"diagnostics">> \o
    [i \in 1..Len(DiagnosticGroups) |->
        (IF DiagnosticGroups[i] \in failed THEN "NOT OK:" ELSE "OK:") \o DiagnosticGroups[i]]

\* lines 763-765
CheckMode ==
    /\ pc = "main"
    /\ args.check
    /\ \E failed \in SUBSET {"commands", "java"} :
          Exit0(check_environment_and_commandline_tools(
                    failed \cup (IF env.AWS THEN {} ELSE {"env"})))
    /\ UNCHANGED <<fn, args, env, git, origin, release_version, snapshot_version,
                   master_hash, version_hash, success, open_issues>>

\* lines 767-779: the checks made before anything is touched
PreflightErrorInEveryMode ==
    \/ src_branch = MASTER
    \/ ~env.AWS
    \/ args.mail /\ ~env.MAIL_SENDER
PreflightError ==
    \/ src_branch = MASTER
    \/ ~dry_run /\ ~env.AWS
    \/ ~dry_run /\ args.mail /\ ~env.MAIL_SENDER

Preflight ==
    /\ pc = "main"
    /\ ~args.check
    /\ IF PreflightError THEN Abort("RuntimeError", <<>>)
       ELSE IF ~dry_run THEN Goto("confirm_publish", <<>>)
       ELSE Goto("discover", <<>>)
    /\ UNCHANGED <<fn, args, env, git, origin, release_version, snapshot_version,
                   master_hash, version_hash, success, open_issues>>

\* line 780: input('Press Enter to continue...')
ConfirmPublish ==
    /\ pc = "confirm_publish"
    /\ \/ Goto("discover", <<"prompt:continue">>)
       \/ Abort("KeyboardInterrupt", <<"prompt:continue">>)
    /\ UNCHANGED <<fn, args, env, git, origin, release_version, snapshot_version,
                   master_hash, version_hash, success, open_issues>>

\* lines 782-806: check_github_credentials, find_release_version, find_from_pom
Discover ==
    /\ pc = "discover"
    /\ LET warn == IF env.GITHUB THEN <<>> ELSE <<"warn:github">>
           g1 == Checkout(git, src_branch)
       IN  \/ /\ Abort("RuntimeError", warn)
              /\ UNCHANGED <<git, release_version>>
           \/ /\ git' = g1
              /\ IF ~HasSnapshotVersion(g1.wt.pom)
                 THEN Abort("RuntimeError", warn \o <<"checkout:src">>)
                      /\ UNCHANGED release_version
                 ELSE /\ release_version' = SnapshotGroup(g1.wt.pom)
                      /\ IF ContainsSnapshot(g1.wt.es)
                         THEN Abort("RuntimeError", warn \o <<"checkout:src">>)
                         ELSE Goto("ask_snapshot", warn \o <<"checkout:src">>)
    /\ UNCHANGED <<fn, args, env, origin, snapshot_version,
                   master_hash, version_hash, success, open_issues>>

\* lines 809-811: the next snapshot version is asked for, the guess is the default
AskSnapshot ==
    /\ pc = "ask_snapshot"
    /\ \/ \E answer \in SnapshotAnswers :
            /\ snapshot_version' = IF answer = <<>> THEN guess_snapshot(release_version)
                                                    ELSE answer
            /\ Goto("baseline", <<"prompt:snapshot">>)
       \/ /\ Abort("KeyboardInterrupt", <<"prompt:snapshot">>)
          /\ UNCHANGED snapshot_version
    /\ UNCHANGED <<fn, args, env, git, origin, release_version,
                   master_hash, version_hash, success, open_issues>>

\* lines 822-825: the two baselines are recorded
Baseline ==
    /\ pc = "baseline"
    /\ LET g1 == Checkout(git, MASTER)
           g2 == Checkout(g1, src_branch)
       IN  \/ /\ ExitMinus1(<<>>)
              /\ UNCHANGED <<git, master_hash, version_hash>>
           \/ /\ ExitMinus1(<<"checkout:master">>)
              /\ git' = g1
              /\ master_hash' = get_head_hash(g1)
              /\ UNCHANGED version_hash
           \/ /\ Goto("clean", <<"checkout:master", "checkout:src">>)
              /\ git' = g2
              /\ master_hash' = get_head_hash(g1)
              /\ version_hash' = get_head_hash(g2)
    /\ UNCHANGED <<fn, args, env, origin, release_version, snapshot_version,
                   success, open_issues>>

\* line 826: run_mvn('clean')
CleanWorkspace ==
    /\ pc = "clean"
    /\ \/ Goto("branch_master", <<"mvn clean">>)
       \/ ExitMinus1(<<>>)
    /\ UNCHANGED <<fn, args, env, git, origin, release_version, snapshot_version,
                   master_hash, version_hash, success, open_issues>>

\* Other committers pushed k commits to the remote branch b since the last sync.
RemoteAhead(g, o, b, k) ==
    IF k = 0 THEN [git |-> g, origin |-> o]
    ELSE [git |-> [g EXCEPT !.tree = @ \o [i \in 1..k |-> g.tree[o.head[b]]]],
          origin |-> [o EXCEPT !.head[b] = Len(g.tree) + k]]

\* lines 402-405: create_release_branch(remote, b, release), called at lines
\* 827 and 829.  fail = 0: no command fails; 1, 2, 3: the checkout, the
\* pull --rebase, the checkout -b fails.
create_release_branch(b, name, next, fail, k) ==
    LET g1 == Checkout(git, b)
        r == RemoteAhead(g1, origin, b, k)
        g2 == PullRebase(r.git, r.origin.head[b])
        g3 == CheckoutNewBranch(g2, release_branch(b, release_version))
    IN  /\ fail = 0 => release_branch(b, release_version) \notin DOMAIN g2.head
        /\ fail \in {1, 2} => k = 0
        /\ git' = CASE fail = 1 -> git
                    [] fail = 2 -> g1
                    [] fail = 3 -> g2
                    [] OTHER -> g3
        /\ origin' = IF fail \in {1, 2} THEN origin ELSE r.origin
        /\ LET evs == CASE fail = 1 -> <<>>
                         [] fail = 2 -> <<"checkout:" \o name>>
                         [] fail = 3 -> <<"checkout:" \o name, "pull:" \o name>>
                         [] OTHER -> <<"checkout:" \o name, "pull:" \o name,
                                       "branch:" \o name>>
           IN  IF fail = 0 THEN Goto(next, evs) ELSE ExitMinus1(evs)

\* line 827
CreateMasterReleaseBranch ==
    /\ pc = "branch_master"
    /\ \E fail \in 0..3, k \in 0..MaxRemoteAhead :
          create_release_branch(MASTER, "master", "branch_src", fail, k)
    /\ UNCHANGED <<fn, args, env, release_version, snapshot_version,
                   master_hash, version_hash, success, open_issues>>

\* line 829
CreateSourceReleaseBranch ==
    /\ pc = "branch_src"
    /\ \E fail \in 0..3, k \in 0..MaxRemoteAhead :
          create_release_branch(src_branch, "src", "bump", fail, k)
    /\ UNCHANGED <<fn, args, env, release_version, snapshot_version,
                   master_hash, version_hash, success, open_issues>>

\* what process_file rewrote: a file is replaced only if a line changed
Rewrites(old, new) ==
    (IF old.pom # new.pom THEN <<"rewrite:pom">> ELSE <<>>)
    \o (IF <<old.heading, old.row, old.install>> # <<new.heading, new.row, new.install>>
        THEN <<"rewrite:readme">> ELSE <<>>)

\* input('Press Enter ...') inside the second try block
PromptLeftOut(next, name) ==
    \/ Goto(next, <<>>)
    \/ Raise("KeyboardInterrupt", <<>>)
Prompt(next, name) ==
    \/ Goto(next, <<name>>)
    \/ Raise("KeyboardInterrupt", <<name>>)

\* lines 842-848: the version bump on the source-lineage release branch
VersionBump ==
    /\ pc = "bump"
    /\ LET c == update_documentation_in_released_branch(
                    remove_maven_snapshot(git.wt, release_version),
                    release_version, elasticsearch_version)
           g1 == [git EXCEPT !.wt = c]
           evs == Rewrites(git.wt, c)
       IN  \/ /\ Dirty(g1)
              /\ git' = Commit(g1)
              /\ Goto("confirm_build", evs \o <<"commit:release">>)
           \/ /\ git' = g1
              /\ Raise("RuntimeError", evs)
    /\ UNCHANGED <<fn, args, env, origin, release_version, snapshot_version,
                   master_hash, version_hash, success, open_issues>>

\* line 851
ConfirmBuild ==
    /\ pc = "confirm_build"
    /\ Prompt("gate", "prompt:build")
    /\ UNCHANGED <<fn, args, env, git, origin, release_version, snapshot_version,
                   master_hash, version_hash, success, open_issues>>

\* lines 516-521: check_opened_issues raises NameError if len(opened_issues) > 0
check_opened_issues_ignored(n) == FALSE
check_opened_issues(n) == n > 0

\* lines 853-854: the tracker is queried (the query itself may fail)
GateCheck ==
    /\ pc = "gate"
    /\ \/ Raise("Exception", <<>>)
       \/ IF check_opened_issues(open_issues) THEN Raise("NameError", <<"issues:open">>)
          ELSE Goto("build", <<"issues:open">>)
    /\ UNCHANGED <<fn, args, env, git, origin, release_version, snapshot_version,
                   master_hash, version_hash, success, open_issues>>

\* lines 468-475: the maven command line of build_release
MavenTargetAlwaysDeploy(dry) == "deploy"
MavenTarget(dry) == IF dry THEN "package" ELSE "deploy"
MavenBuild(run_tests, dry) ==
    "mvn clean " \o MavenTarget(dry) \o (IF run_tests THEN "" ELSE " -DskipTests")

\* line 859
BuildRelease ==
    /\ pc = "build"
    /\ \/ Goto("artifacts", <<MavenBuild(args.tests, dry_run)>>)
       \/ Raise("RuntimeError", <<MavenBuild(args.tests, dry_run)>>)
    /\ UNCHANGED <<fn, args, env, git, origin, release_version, snapshot_version,
                   master_hash, version_hash, success, open_issues>>

\* lines 860-861: get_artifacts raises if the file is absent, generate_checksums
\* if shasum fails
Artifacts ==
    /\ pc = "artifacts"
    /\ \/ Raise("RuntimeError", <<>>)
       \/ Raise("RuntimeError", <<"artifact">>)
       \/ Goto("master_doc", <<"artifact", "checksum">>)
    /\ UNCHANGED <<fn, args, env, git, origin, release_version, snapshot_version,
                   master_hash, version_hash, success, open_issues>>

\* lines 867-872: the documentation update on the master-lineage release branch
MasterDocumentation ==
    /\ pc = "master_doc"
    /\ LET g1 == Checkout(git, release_branch(MASTER, release_version))
           c == set_install_instructions(
                    update_documentation_to_released_version(
                        g1.wt, release_version, src_branch, elasticsearch_version),
                    release_version)
           g2 == [g1 EXCEPT !.wt = c]
           evs == <<"checkout:release_master">> \o Rewrites(g1.wt, c)
       IN  \/ /\ Raise("RuntimeError", <<>>)
              /\ UNCHANGED git
           \/ /\ git' = g2
              /\ Raise("RuntimeError", evs)
           \/ /\ Dirty(g2)
              /\ git' = Commit(g2)
              /\ Goto("confirm_finish", evs \o <<"commit:master">>)
    /\ UNCHANGED <<fn, args, env, origin, release_version, snapshot_version,
                   master_hash, version_hash, success, open_issues>>

\* line 875
ConfirmFinish ==
    /\ pc = "confirm_finish"
    /\ Prompt("merge_src", "prompt:finish")
    /\ UNCHANGED <<fn, args, env, git, origin, release_version, snapshot_version,
                   master_hash, version_hash, success, open_issues>>

\* lines 440-442: git_merge(b, release), called at lines 878 and 888
git_merge_checkout_only(b, name, next) ==
    \/ /\ Raise("RuntimeError", <<>>)
       /\ UNCHANGED git
    \/ /\ git' = Checkout(git, b)
       /\ Goto(next, <<"checkout:" \o name>>)
git_merge(b, name, next) ==
    LET g1 == Checkout(git, b)
        g2 == Merge(g1, release_branch(b, release_version))
    IN  \/ /\ Raise("RuntimeError", <<>>)
           /\ UNCHANGED git
        \/ /\ git' = g1
           /\ Raise("RuntimeError", <<"checkout:" \o name>>)
        \/ /\ git' = g2
           /\ Goto(next, <<"checkout:" \o name, "merge:" \o name>>)

\* line 878
MergeSource ==
    /\ pc = "merge_src"
    /\ git_merge(src_branch, "src", "tag")
    /\ UNCHANGED <<fn, args, env, origin, release_version, snapshot_version,
                   master_hash, version_hash, success, open_issues>>

\* lines 430-431 and 880: git tag -a fails if the tag exists
tag_release ==
    \/ /\ TagName(release_version) \notin DOMAIN git.tags
       /\ git' = TagCreate(git, TagName(release_version))
       /\ Goto("next_snapshot", <<"tag">>)
    \/ /\ Raise("RuntimeError", <<>>)
       /\ UNCHANGED git

TagRelease ==
    /\ pc = "tag"
    /\ tag_release
    /\ UNCHANGED <<fn, args, env, origin, release_version, snapshot_version,
                   master_hash, version_hash, success, open_issues>>

\* lines 882-885: the next development iteration on the source branch
NextSnapshot ==
    /\ pc = "next_snapshot"
    /\ LET c == update_documentation_in_released_branch(
                    add_maven_snapshot(git.wt, release_version, snapshot_version),
                    WithSnapshot(snapshot_version), elasticsearch_version)
           g1 == [git EXCEPT !.wt = c]
           evs == Rewrites(git.wt, c)
       IN  \/ /\ Dirty(g1)
              /\ git' = Commit(g1)
              /\ Goto("merge_master", evs \o <<"commit:snapshot">>)
           \/ /\ git' = g1
              /\ Raise("RuntimeError", evs)
    /\ UNCHANGED <<fn, args, env, origin, release_version, snapshot_version,
                   master_hash, version_hash, success, open_issues>>

\* line 888
MergeMaster ==
    /\ pc = "merge_master"
    /\ git_merge(MASTER, "master", "push")
    /\ UNCHANGED <<fn, args, env, origin, release_version, snapshot_version,
                   master_hash, version_hash, success, open_issues>>

\* lines 446-451 and 891.  git push <remote> <src> master updates two refs,
\* each on its own: the remote may accept one and reject the other, and the
\* command then fails.
git_push(dry) ==
    LET o1 == [origin EXCEPT !.head[src_branch] = git.head[src_branch]]
        om == [origin EXCEPT !.head[MASTER] = git.head[MASTER]]
        o2 == [o1 EXCEPT !.head[MASTER] = git.head[MASTER]]
        o3 == [o2 EXCEPT !.tags = @ \cup {TagName(release_version)}]
    IN  IF dry
        THEN Goto("publish", <<"skip:push">>) /\ UNCHANGED origin
        ELSE \/ /\ Raise("RuntimeError", <<>>)
                /\ UNCHANGED origin
             \/ /\ Raise("RuntimeError", <<"push:src">>)
                /\ origin' = o1
             \/ /\ Raise("RuntimeError", <<"push:master">>)
                /\ origin' = om
             \/ /\ Raise("RuntimeError", <<"push:src", "push:master">>)
                /\ origin' = o2
             \/ /\ Goto("publish", <<"push:src", "push:master", "push:tag">>)
                /\ origin' = o3

GitPush ==
    /\ pc = "push"
    /\ git_push(dry_run)
    /\ UNCHANGED <<fn, args, env, git, release_version, snapshot_version,
                   master_hash, version_hash, success, open_issues>>

\* lines 329-334: target/releases/<artifact_id>-<release>.zip, a function of
\* the artifact id and the release version; the files are named here by
\* their extension
artifact_path == "zip"

\* lines 340-349: the list returned by generate_checksums
generate_checksums_artifact_first(release_file) == <<release_file, "sha1">>
generate_checksums(release_file) == <<"sha1", release_file>>

\* lines 484-492 and 893: the files of artifact_and_checksums (line 861) are
\* uploaded one by one, in the order of the list
publish_artifacts(dry) ==
    LET artifacts == generate_checksums(artifact_path)
        uploads == [i \in DOMAIN artifacts |-> "upload:" \o artifacts[i]]
    IN  IF dry
        THEN Goto("prepare_email", [i \in DOMAIN artifacts |-> "skip:upload"])
        ELSE \/ \E n \in 0..(Len(artifacts) - 1) :
                   Raise("RuntimeError", SubSeq(uploads, 1, n))
             \/ Goto("prepare_email", uploads)

PublishArtifacts ==
    /\ pc = "publish"
    /\ publish_artifacts(dry_run)
    /\ UNCHANGED <<fn, args, env, git, origin, release_version, snapshot_version,
                   master_hash, version_hash, success, open_issues>>

\* lines 547-613 and 895: the four closed-issue queries of prepare_email
PrepareEmail ==
    /\ pc = "prepare_email"
    /\ \/ Goto("confirm_email", <<"issues:closed">>)
       \/ Raise("Exception", <<"issues:closed:error">>)
    /\ UNCHANGED <<fn, args, env, git, origin, release_version, snapshot_version,
                   master_hash, version_hash, success, open_issues>>

\* line 896
ConfirmEmail ==
    /\ pc = "confirm_email"
    /\ Prompt("send_email", "prompt:email")
    /\ UNCHANGED <<fn, args, env, git, origin, release_version, snapshot_version,
                   master_hash, version_hash, success, open_issues>>

\* lines 616-633 and 898: the mail is saved, and sent if mail and not dry_run
send_email_ignoring_dry_run(dry, mail) ==
    IF mail
    THEN \/ Goto("succeed", <<"email:saved", "email:sent">>)
         \/ Raise("Exception", <<"email:saved">>)
    ELSE Goto("succeed", <<"email:saved">>)
send_email(dry, mail) ==
    IF mail /\ ~dry
    THEN \/ Goto("succeed", <<"email:saved", "email:sent">>)
         \/ Raise("Exception", <<"email:saved">>)
    ELSE Goto("succeed", <<"email:saved">>)

SendEmail ==
    /\ pc = "send_email"
    /\ send_email(dry_run, args.mail)
    /\ UNCHANGED <<fn, args, env, git, origin, release_version, snapshot_version,
                   master_hash, version_hash, success, open_issues>>

\* lines 900-909
Succeed ==
    /\ pc = "succeed"
    /\ success' = TRUE
    /\ Goto("finally", <<>>)
    /\ UNCHANGED <<fn, args, env, git, origin, release_version, snapshot_version,
                   master_hash, version_hash, open_issues>>

\* lines 915-918 and 926-929: both branches are reset to their baselines.
\* The result after n of the four commands.
ResetBranches(g, n) ==
    LET g1 == Checkout(g, MASTER)
        g2 == ResetHard(g1, master_hash)
        g3 == Checkout(g2, src_branch)
        g4 == ResetHard(g3, version_hash)
    IN  CASE n = 0 -> g [] n = 1 -> g1 [] n = 2 -> g2 [] n = 3 -> g3 [] OTHER -> g4

ResetEvents(n) ==
    SubSeq(<<"checkout:master", "reset:master", "checkout:src", "reset:src">>, 1, n)

\* lines 911-922: the rollback of a failed run; a failing git tag -d is ignored
Rollback ==
    /\ pc = "finally"
    /\ ~success
    /\ \/ \E n \in 0..3 :
            /\ git' = ResetBranches(git, n)
            /\ RaiseInFinally("RuntimeError", ResetEvents(n))
       \/ /\ TagName(release_version) \in DOMAIN git.tags
          /\ git' = TagDelete(ResetBranches(git, 4), TagName(release_version))
          /\ Goto("cleanup", ResetEvents(4) \o <<"tag:delete">>)
       \/ /\ git' = ResetBranches(git, 4)
          /\ Goto("cleanup", ResetEvents(4) \o
                             (IF TagName(release_version) \in DOMAIN git.tags
                              THEN <<"tag:delete:error">> ELSE <<>>))
    /\ UNCHANGED <<fn, args, env, origin, release_version, snapshot_version,
                   master_hash, version_hash, success, open_issues>>

\* lines 923-925: input('Press Enter to reset changes...')
ConfirmReset ==
    /\ pc = "finally"
    /\ success
    /\ dry_run
    /\ \/ Goto("dry_reset", <<"prompt:reset">>)
       \/ RaiseInFinally("KeyboardInterrupt", <<"prompt:reset">>)
    /\ UNCHANGED <<fn, args, env, git, origin, release_version, snapshot_version,
                   master_hash, version_hash, success, open_issues>>

\* lines 926-930: the reset that ends a dry run; a failing git tag -d raises
DryRunReset ==
    /\ pc = "dry_reset"
    /\ \/ \E n \in 0..4 :
            /\ git' = ResetBranches(git, n)
            /\ RaiseInFinally("RuntimeError", ResetEvents(n))
       \/ /\ TagName(release_version) \in DOMAIN git.tags
          /\ git' = TagDelete(ResetBranches(git, 4), TagName(release_version))
          /\ Goto("cleanup", ResetEvents(4) \o <<"tag:delete">>)
    /\ UNCHANGED <<fn, args, env, origin, release_version, snapshot_version,
                   master_hash, version_hash, success, open_issues>>

\* line 923 not taken: a successful publishing run resets nothing
KeepRelease ==
    /\ pc = "finally"
    /\ success
    /\ ~dry_run
    /\ Goto("cleanup", <<>>)
    /\ UNCHANGED <<fn, args, env, git, origin, release_version, snapshot_version,
                   master_hash, version_hash, success, open_issues>>

\* lines 933-937: both release branches are deleted and the source branch is
\* checked out; then the process ends, with the exception in flight if any
Cleanup ==
    /\ pc = "cleanup"
    /\ LET rm == release_branch(MASTER, release_version)
           rs == release_branch(src_branch, release_version)
           g1 == BranchDelete(git, rm)
           g2 == BranchDelete(g1, rs)
           g3 == Checkout(g2, src_branch)
       IN  \/ /\ git' = git
              /\ RaiseInFinally("RuntimeError", <<>>)
           \/ /\ git.cur # rm
              /\ git' = g1
              /\ RaiseInFinally("RuntimeError", <<"branch:delete:master">>)
           \/ /\ git.cur \notin {rm, rs}
              /\ git' = g2
              /\ RaiseInFinally("RuntimeError",
                                <<"branch:delete:master", "branch:delete:src">>)
           \/ /\ git.cur \notin {rm, rs}
              /\ git' = g3
              /\ pc' = "exit"
              /\ exit_status' = UncaughtStatus(exc)
              /\ trace' = trace \o <<"branch:delete:master", "branch:delete:src",
                                      "checkout:src">>
              /\ UNCHANGED exc
    /\ UNCHANGED <<fn, args, env, origin, release_version, snapshot_version,
                   master_hash, version_hash, success, open_issues>>

Next ==
    \/ ModuleLoad
    \/ CheckMode
    \/ Preflight
    \/ ConfirmPublish
    \/ Discover
    \/ AskSnapshot
    \/ Baseline
    \/ CleanWorkspace
    \/ CreateMasterReleaseBranch
    \/ CreateSourceReleaseBranch
    \/ VersionBump
    \/ ConfirmBuild
    \/ GateCheck
    \/ BuildRelease
    \/ Artifacts
    \/ MasterDocumentation
    \/ ConfirmFinish
    \/ MergeSource
    \/ TagRelease
    \/ NextSnapshot
    \/ MergeMaster
    \/ GitPush
    \/ PublishArtifacts
    \/ PrepareEmail
    \/ ConfirmEmail
    \/ SendEmail
    \/ Succeed
    \/ Rollback
    \/ ConfirmReset
    \/ DryRunReset
    \/ KeepRelease
    \/ Cleanup

Spec == Init /\ [][Next]_vars

\* ------------------------------------------------------------------ claims
NoEvent(S) == \A i \in 1..Len(trace) : trace[i] \notin S

ReleaseTag == TagName(release_version)
MasterReleaseBranch == release_branch(MASTER, release_version)
SourceReleaseBranch == release_branch(src_branch, release_version)

BaselineRecorded == master_hash # 0 /\ version_hash # 0

PushEvents == {"push:src", "push:master", "push:tag"}
UploadEvents == {"upload:sha1", "upload:zip"}
DeployEvents == {"mvn clean deploy", "mvn clean deploy -DskipTests"}
BuildEvents == DeployEvents \cup {"mvn clean package", "mvn clean package -DskipTests"}

AtBaselines ==
    /\ git.head[MASTER] = master_hash
    /\ git.head[src_branch] = version_hash

\* every release mutation is in place, locally and on the remote
AllLanded ==
    /\ Did("merge:src") /\ Did("commit:snapshot") /\ Did("merge:master")
    /\ ~Did("reset:master") /\ ~Did("reset:src")
    /\ ReleaseTag \in DOMAIN git.tags
    /\ origin.head[MASTER] = git.head[MASTER]
    /\ origin.head[src_branch] = git.head[src_branch]
    /\ ReleaseTag \in origin.tags

\* no release mutation is in place, locally or on the remote
NoneLanded ==
    /\ AtBaselines
    /\ Did("tag") => ReleaseTag \notin DOMAIN git.tags
    /\ NoEvent(PushEvents)

\* C1: a run that recorded both baselines and ended has left master and the
\* source branch, locally and on the remote, with every release mutation in
\* place (only after a publishing run that succeeded) or with none.
C1_AllOrNothing ==
    (pc = "exit" /\ BaselineRecorded) =>
        \/ AllLanded /\ ~dry_run /\ success
        \/ NoneLanded

\* C2: after a dry run in which every step succeeded, local master and the
\* local source branch are at the revisions they had when the run started
\* (1 and 2 in Init, before the pull --rebase of the fan-out), and the tag
\* v<release> does not exist.
C2_DryRunRestores ==
    (pc = "exit" /\ dry_run /\ success /\ exit_status = 0) =>
        /\ git.head[MASTER] = 1
        /\ git.head[src_branch] = 2
        /\ ReleaseTag \notin DOMAIN git.tags

\* a dry run completed although the pull --rebase had moved both branches
C2_Witness ==
    /\ pc = "exit" /\ dry_run /\ success /\ exit_status = 0
    /\ origin.head[MASTER] # 1
    /\ origin.head[src_branch] # 2
    /\ Did("tag") /\ Did("tag:delete")

\* C3: a run that fails after both baselines were recorded ends with master
\* and the source branch at the recorded baselines and a non-zero exit status.
C3_FailureRollsBack ==
    (pc = "exit" /\ BaselineRecorded /\ ~success) =>
        AtBaselines /\ exit_status # 0

\* C4: a run that created a release-lineage branch ends with both
\* release-lineage branches deleted and the source branch checked out.
C4_CleanupAlways ==
    (pc = "exit" /\ (Did("branch:master") \/ Did("branch:src"))) =>
        /\ MasterReleaseBranch \notin DOMAIN git.head
        /\ SourceReleaseBranch \notin DOMAIN git.head
        /\ git.cur = src_branch

\* C5: in a dry run nothing is ever pushed, uploaded or mailed, the builder
\* is never run with the deploy target, and no tag reaches the remote; once
\* the announce phase is passed the push and both uploads were skipped.
C5_DryRunPublishesNothing ==
    dry_run =>
        /\ NoEvent(PushEvents \cup UploadEvents \cup DeployEvents \cup {"email:sent"})
        /\ origin.tags = {}
        /\ Did("email:saved") => Did("skip:push") /\ Did("skip:upload")

\* a dry run went through build, push, upload and mail
C5_Witness ==
    /\ dry_run /\ args.mail /\ pc = "succeed"
    /\ \E i \in 1..Len(trace) : trace[i] \in BuildEvents
    /\ Did("skip:push") /\ Did("skip:upload") /\ Did("email:saved")

\* C6: with an open issue labelled with the release version the build is
\* never run, and no master documentation commit, merge, tag, push, upload or
\* mail transmission happens.
C6_OpenIssueStopsRelease ==
    open_issues > 0 =>
        NoEvent(BuildEvents \cup PushEvents \cup UploadEvents
                \cup {"commit:master", "merge:src", "merge:master", "tag", "email:sent"})

\* the gate check was reached with an open issue and the run has ended
C6_Witness ==
    open_issues > 0 /\ Did("issues:open") /\ exc = "NameError" /\ pc = "exit"

\* C7: when the gate check fails on an open issue, this run has created no
\* branch, made no commit and rewritten no file.
C7_GateBeforeMutation ==
    (pc = "finally" /\ exc = "NameError") =>
        NoEvent({"branch:master", "branch:src", "commit:release",
                 "rewrite:pom", "rewrite:readme"})

\* the pom.xml and the dependency version the run starts from
InitialPom == git.tree[2].pom
InitialEs == git.tree[2].es

PreconditionFails ==
    \/ ~env.JAVA_HOME
    \/ /\ ~args.check
       /\ \/ src_branch = MASTER
          \/ ~dry_run /\ ~env.AWS
          \/ ~dry_run /\ args.mail /\ ~env.MAIL_SENDER
          \/ InitialPom[Len(InitialPom)] # SNAPSHOT
          \/ \E i \in DOMAIN InitialEs : InitialEs[i] = SNAPSHOT

\* C8: when a precondition fails (JAVA_HOME unset; release from master; in
\* publish mode no S3 credentials or, with mail, no MAIL_SENDER; no -SNAPSHOT
\* version in pom.xml; a -SNAPSHOT dependency) the run never gets to the
\* baseline, creates no branch, makes no commit, rewrites no file, and its
\* exit status is non-zero.
C8_PreconditionsAbortEarly ==
    PreconditionFails =>
        /\ pc \in {"load", "main", "confirm_publish", "discover", "exit"}
        /\ pc = "exit" => exit_status # 0
        /\ DOMAIN git.head \subseteq {MASTER, src_branch}
        /\ Len(git.tree) = 2
        /\ git.wt = git.tree[2]
        /\ NoEvent({"branch:master", "branch:src", "commit:release",
                    "rewrite:pom", "rewrite:readme"})

\* the run was aborted at Discover on a -SNAPSHOT dependency
C8_Witness ==
    /\ pc = "exit" /\ exit_status = 1 /\ Did("checkout:src")
    /\ env.JAVA_HOME /\ ~args.check /\ src_branch # MASTER
    /\ InitialPom[Len(InitialPom)] = SNAPSHOT
    /\ InitialEs = <<"3", ".", "0", ".", "0", SNAPSHOT>>

\* C9: after a publishing run in which every step succeeded, master and the
\* source branch are off their baselines, the tag v<release> exists, neither
\* release-lineage branch exists, and pom.xml on the source branch holds
\* <next snapshot version>-SNAPSHOT.
C9_PublishedRelease ==
    (pc = "exit" /\ ~dry_run /\ success /\ exit_status = 0) =>
        /\ git.head[MASTER] # master_hash
        /\ git.head[src_branch] # version_hash
        /\ ReleaseTag \in DOMAIN git.tags
        /\ MasterReleaseBranch \notin DOMAIN git.head
        /\ SourceReleaseBranch \notin DOMAIN git.head
        /\ git.tree[git.head[src_branch]].pom = WithSnapshot(snapshot_version)

\* the release of 2.5.0 was published with the guessed next version 2.5.1
C9_Witness ==
    /\ pc = "exit" /\ ~dry_run /\ success /\ exit_status = 0
    /\ release_version = <<"2", ".", "5", ".", "0">>
    /\ git.tree[git.head[src_branch]].pom = <<"2", ".", "5", ".", "1", SNAPSHOT>>
    /\ Did("push:tag")

\* C10: a run that ends in the fan-out (a pull --rebase or a branch creation
\* failed: exit status 255) leaves local master and the local source branch
\* at the baselines recorded just before.
C10_FanoutFailureLeavesBranches ==
    (pc = "exit" /\ exit_status = 255 /\ BaselineRecorded) => AtBaselines

\* C11: the rollback deletes the tag v<release> only if this run created it:
\* a tag of that name that was there before the run is never deleted.
C11_RollbackKeepsForeignTag ==
    Did("tag:delete") => Did("tag")

\* C12: once send_email has run, the mail is on disk whatever the flags, and
\* it was transmitted exactly when mail is enabled and the run is no dry run
\* (if the transmission fails, the mail is on disk all the same).
C12_MailSavedAndSentIfEnabled ==
    /\ Did("email:sent") => args.mail /\ ~dry_run /\ Did("email:saved")
    /\ pc = "succeed" =>
          /\ Did("email:saved")
          /\ Did("email:sent") <=> (args.mail /\ ~dry_run)
    /\ (Did("prompt:email") /\ exc = "Exception") => Did("email:saved")

\* a publishing run with mail disabled saved the mail and did not send it
C12_Witness ==
    /\ pc = "succeed" /\ ~dry_run /\ ~args.mail
    /\ Did("upload:zip") /\ Did("email:saved") /\ ~Did("email:sent")

\* C13: a rollback entered with both heads at their baselines and no tag
\* created by this run changes neither a branch head nor the set of tags.
C13_RollbackNoOp ==
    [][(pc = "finally" /\ ~success /\ pc' = "cleanup" /\ AtBaselines /\ ~Did("tag"))
        => (git'.head = git.head /\ git'.tags = git.tags)]_vars

\* a release step: any effect other than the lines of the diagnostics
ReleaseSteps ==
    {i \in DOMAIN trace :
        trace[i] \notin {check_environment_and_commandline_tools({})[k] : k \in 1..4}
                        \cup {check_environment_and_commandline_tools(
                                  {"env", "commands", "java"})[k] : k \in 1..4}}

\* C18: a run in check mode ends with exit status 0, after the diagnostics
\* and without any release step.
C18_CheckModeExitsZero ==
    (args.check /\ pc = "exit") =>
        /\ exit_status = 0
        /\ Did("diagnostics")
        /\ ReleaseSteps = {}

\* C19: a failing query of the closed issues never blocks a release: after
\* the artifacts were published, the branches are not reset and the run ends
\* with exit status 0.
C19_IssueQueriesNeverBlock ==
    (~dry_run /\ Did("upload:zip") /\ Did("issues:closed:error")) =>
        /\ ~Did("reset:master") /\ ~Did("reset:src")
        /\ pc = "exit" => (success /\ exit_status = 0)

\* the prompts answered or interrupted so far, in order
PromptEvents ==
    {"prompt:continue", "prompt:snapshot", "prompt:build", "prompt:finish",
     "prompt:email", "prompt:reset"}
Prompts == SelectSeq(trace, LAMBDA e : e \in PromptEvents)
IsPrefix(s, t) == Len(s) <= Len(t) /\ s = SubSeq(t, 1, Len(s))
PromptsBeforeSuccess ==
    (IF dry_run THEN <<>> ELSE <<"prompt:continue">>) \o
    <<"prompt:snapshot", "prompt:build", "prompt:finish", "prompt:email">>
PromptsOfRun ==
    PromptsBeforeSuccess \o (IF dry_run THEN <<"prompt:reset">> ELSE <<>>)

\* C20 as stated: the run blocks at three prompts and no other, in the
\* order build, finish, email.
C20_ExactlyThreePrompts ==
    IsPrefix(Prompts, <<"prompt:build", "prompt:finish", "prompt:email">>)

\* C20: the prompts of a run are, in order: the confirmation of a publishing
\* run, the next snapshot version, before the build, before finishing, before
\* the email, and in a dry run before the reset; a run that succeeds has
\* passed all of them up to the email.
C20_PromptsInOrder ==
    /\ IsPrefix(Prompts, PromptsOfRun)
    /\ pc = "succeed" => Prompts = PromptsBeforeSuccess
    /\ pc = "dry_reset" => Prompts = PromptsOfRun

\* a dry run that succeeded and was asked to confirm the reset
C20_Witness ==
    /\ pc = "dry_reset" /\ dry_run /\ success
    /\ Len(Prompts) = 5 /\ Prompts[5] = "prompt:reset"

\* ------------------------------------------------------------------ helper functions
\* The helper functions of the script, each run on its own: fn holds the call
\* in progress, and the variables of the release do not take part.
NotReleasing ==
    /\ pc = "function"
    /\ args = [branch |-> MASTER, tests |-> TRUE, dryrun |-> TRUE, mail |-> FALSE,
               check |-> FALSE]
    /\ env = [JAVA_HOME |-> TRUE, AWS |-> FALSE, MAIL_SENDER |-> FALSE, GITHUB |-> FALSE]
    /\ git = [head |-> (MASTER :> 1), tags |-> <<>>, cur |-> MASTER,
              wt |-> InitialContent(<<>>, <<>>), tree |-> <<InitialContent(<<>>, <<>>)>>]
    /\ origin = [head |-> (MASTER :> 1), tags |-> {}]
    /\ open_issues = 0
    /\ release_version = <<>>
    /\ snapshot_version = <<>>
    /\ master_hash = 0
    /\ version_hash = 0
    /\ success = FALSE
    /\ exc = "none"
    /\ exit_status = 0
    /\ trace = <<>>

ReleaseUnchanged ==
    UNCHANGED <<pc, args, env, git, origin, release_version, snapshot_version,
                master_hash, version_hash, success, exc, exit_status, open_issues, trace>>

\* the numerals a version component is written with, each with its value
Numerals ==
    {[text |-> <<"0">>, value |-> 0], [text |-> <<"1">>, value |-> 1],
     [text |-> <<"9">>, value |-> 9], [text |-> <<"1", "0">>, value |-> 10],
     [text |-> <<"0", "2">>, value |-> 2]}

\* '<major>.<minor>.<patch>' with an optional -SNAPSHOT
VersionText(parts, snapshot) ==
    parts[1].text \o <<".">> \o parts[2].text \o <<".">> \o parts[3].text
        \o (IF snapshot THEN <<SNAPSHOT>> ELSE <<>>)

\* ---- lines 199-208: guess_snapshot(version) called on a version string
InitVersion ==
    /\ NotReleasing
    /\ \E parts \in [1..3 -> Numerals], snapshot \in BOOLEAN :
          fn = [op |-> "guess_snapshot", at |-> "call", parts |-> parts,
                snapshot |-> snapshot, version |-> VersionText(parts, snapshot),
                digits |-> <<>>, result |-> <<>>]

\* line 205
SplitVersion ==
    /\ fn.at = "call"
    /\ fn' = [fn EXCEPT !.at = "digits", !.digits = split_version_to_digits(fn.version)]
    /\ ReleaseUnchanged

\* lines 206-208
GuessSnapshot ==
    /\ fn.at = "digits"
    /\ fn' = [fn EXCEPT !.at = "return", !.result = guess_snapshot(fn.version)]
    /\ ReleaseUnchanged

NextVersion == SplitVersion \/ GuessSnapshot

SpecVersion == InitVersion /\ [][NextVersion]_vars

\* the values of the three components the version was written with
PartValues == [i \in 1..3 |-> fn.parts[i].value]

\* C14: split_version_to_digits returns the three integers of the version in
\* order, and guess_snapshot returns the same string with the patch increased
\* by one, major and minor unchanged, the -SNAPSHOT suffix kept: the result
\* differs from the version it was given.
C14_SplitAndGuess ==
    /\ fn.at \in {"digits", "return"} => fn.digits = PartValues
    /\ fn.at = "return" =>
          /\ fn.result # fn.version
          /\ split_version_to_digits(fn.result) =
                <<PartValues[1], PartValues[2], PartValues[3] + 1>>
          /\ fn.snapshot <=> (fn.result[Len(fn.result)] = SNAPSHOT)

\* the same, for the versions written without leading zeros
C14_Canonical ==
    (\A i \in 1..3 : fn.parts[i].text = IntToStr(fn.parts[i].value)) => C14_SplitAndGuess

\* ---- lines 213-217: get_doc_anchor(release, esversion) called on two pairs
\* of versions
Numeral(n) == [text |-> IntToStr(n), value |-> n]
ReleaseParts ==
    {<<Numeral(a), Numeral(b), Numeral(c)>> : a \in {1, 2, 11}, b \in {0, 5, 10}, c \in {0, 1}}
EsParts ==
    {<<Numeral(a), Numeral(b), Numeral(c)>> : a \in {1, 2}, b \in {0, 4}, c \in {0, 1}}
AnchorCalls ==
    {[release |-> VersionText(r, FALSE), esversion |-> VersionText(e, snapshot),
      key |-> <<r[1].value, r[2].value, r[3].value, e[1].value, e[2].value>>] :
        r \in ReleaseParts, e \in EsParts, snapshot \in BOOLEAN}

InitAnchor ==
    /\ NotReleasing
    /\ \E one \in AnchorCalls, two \in AnchorCalls :
          fn = [op |-> "get_doc_anchor", at |-> "call", one |-> one, two |-> two,
                anchor1 |-> <<>>, anchor2 |-> <<>>]

AnchorOfFirst ==
    /\ fn.at = "call"
    /\ fn' = [fn EXCEPT !.at = "second",
                        !.anchor1 = get_doc_anchor(fn.one.release, fn.one.esversion)]
    /\ ReleaseUnchanged

AnchorOfSecond ==
    /\ fn.at = "second"
    /\ fn' = [fn EXCEPT !.at = "return",
                        !.anchor2 = get_doc_anchor(fn.two.release, fn.two.esversion)]
    /\ ReleaseUnchanged

NextAnchor == AnchorOfFirst \/ AnchorOfSecond

SpecAnchor == InitAnchor /\ [][NextAnchor]_vars

SingleDigits(key) == \A i \in 1..5 : key[i] < 10

\* C15 as stated: two distinct pairs of versions never give the same anchor.
C15_AnchorInjective ==
    (fn.at = "return"
        /\ <<fn.one.release, fn.one.esversion>> # <<fn.two.release, fn.two.esversion>>)
    => fn.anchor1 # fn.anchor2

\* C15: the anchor depends only on the three numbers of the release and on
\* the major and minor numbers of the dependency version, and as long as
\* each of these five numbers is below 10, two calls that differ in one of
\* them give different anchors.
C15_AnchorOfFiveNumbers ==
    fn.at = "return" =>
        /\ fn.one.key = fn.two.key => fn.anchor1 = fn.anchor2
        /\ (SingleDigits(fn.one.key) /\ SingleDigits(fn.two.key) /\ fn.one.key # fn.two.key)
              => fn.anchor1 # fn.anchor2

\* release 2.5.1 against 1.4.0 and against 2.4.0-SNAPSHOT: two anchors
C15_Witness ==
    /\ fn.at = "return"
    /\ fn.one.key = <<2, 5, 1, 1, 4>> /\ fn.two.key = <<2, 5, 1, 2, 4>>
    /\ fn.two.esversion[Len(fn.two.esversion)] = SNAPSHOT
    /\ fn.anchor1 # fn.anchor2

\* ---- lines 176-195: process_file(file_path, line_callback), one step per
\* file system operation
FileLines == {"<version>2.5.0-SNAPSHOT</version>", "<version>2.5.0</version>",
              "<name>plugin</name>"}
Files == UNION {[1..n -> FileLines] : n \in 0..MaxLines}
\* a path of the file system: no file there, or a file and its lines
NoFile == [exists |-> FALSE, lines |-> <<>>]
FileOf(lines) == [exists |-> TRUE, lines |-> lines]

\* line 183
ModifiedByLastLine(modified, new_line, line) == new_line # line
Modified(modified, new_line, line) == modified \/ (new_line # line)

InitPatcher ==
    /\ NotReleasing
    /\ \E lines \in Files, line_callback \in [FileLines -> FileLines] :
          fn = [op |-> "process_file", at |-> "call", line_callback |-> line_callback,
                original |-> lines, file_path |-> FileOf(lines), abs_path |-> NoFile,
                read |-> 0, modified |-> FALSE, result |-> FALSE]

\* lines 177-180: the temporary file is created and both files are opened
Mkstemp ==
    /\ fn.at = "call"
    /\ fn' = [fn EXCEPT !.at = "loop", !.abs_path = FileOf(<<>>)]
    /\ ReleaseUnchanged

\* lines 181-184: one line is read, rewritten and written to the temporary file
RewriteLine ==
    /\ fn.at = "loop"
    /\ fn.read < Len(fn.file_path.lines)
    /\ LET line == fn.file_path.lines[fn.read + 1]
           new_line == fn.line_callback[line]
       IN  fn' = [fn EXCEPT !.read = fn.read + 1,
                            !.modified = Modified(fn.modified, new_line, line),
                            !.abs_path = FileOf(Append(fn.abs_path.lines, new_line))]
    /\ ReleaseUnchanged

\* line 185: both files are closed at the end of the with blocks
CloseFiles ==
    /\ fn.at = "loop"
    /\ fn.read = Len(fn.file_path.lines)
    /\ fn' = [fn EXCEPT !.at = IF fn.modified THEN "remove" ELSE "discard"]
    /\ ReleaseUnchanged

\* lines 186-188: os.remove(file_path)
RemoveOriginal ==
    /\ fn.at = "remove"
    /\ fn' = [fn EXCEPT !.at = "move", !.file_path = NoFile]
    /\ ReleaseUnchanged

\* lines 189-191: shutil.move(abs_path, file_path); return True
MoveNewFile ==
    /\ fn.at = "move"
    /\ fn' = [fn EXCEPT !.at = "return", !.file_path = fn.abs_path, !.abs_path = NoFile,
                        !.result = TRUE]
    /\ ReleaseUnchanged

\* lines 192-195: os.remove(abs_path); return False
DiscardNewFile ==
    /\ fn.at = "discard"
    /\ fn' = [fn EXCEPT !.at = "return", !.abs_path = NoFile, !.result = FALSE]
    /\ ReleaseUnchanged

NextPatcher ==
    \/ Mkstemp
    \/ RewriteLine
    \/ CloseFiles
    \/ RemoveOriginal
    \/ MoveNewFile
    \/ DiscardNewFile

SpecPatcher == InitPatcher /\ [][NextPatcher]_vars

\* the lines of the original file the rule changes
ChangedLines == {i \in DOMAIN fn.original : fn.line_callback[fn.original[i]] # fn.original[i]}
\* the original file with every line rewritten by the rule
Rewritten == [i \in DOMAIN fn.original |-> fn.line_callback[fn.original[i]]]

\* C16: when process_file returns, the file has as many lines as before, in
\* the same order; a line differs from the original only where the rule
\* changes it; with no changed line the contents are identical; and the
\* result is True exactly when at least one line was changed.
C16_PatcherResult ==
    fn.at = "return" =>
        /\ fn.file_path.exists
        /\ Len(fn.file_path.lines) = Len(fn.original)
        /\ \A i \in DOMAIN fn.original :
              /\ i \notin ChangedLines => fn.file_path.lines[i] = fn.original[i]
              /\ i \in ChangedLines => fn.file_path.lines[i] = fn.line_callback[fn.original[i]]
        /\ ChangedLines = {} => fn.file_path.lines = fn.original
        /\ fn.result <=> (ChangedLines # {})

\* a file of three lines of which the rule changes the second only
C16_Witness ==
    /\ fn.at = "return" /\ fn.result
    /\ Len(fn.original) = 3 /\ ChangedLines = {2}
    /\ fn.file_path.lines[2] # fn.original[2]
    /\ fn.file_path.lines[1] = fn.original[1] /\ fn.file_path.lines[3] = fn.original[3]

\* C17: at every step of process_file the target path exists and holds the
\* complete original contents or the complete rewritten contents.
C17_AtomicReplace ==
    /\ fn.file_path.exists
    /\ fn.file_path.lines \in {fn.original, Rewritten}

\* ------------------------------------------------------------------ order of the release
\* every occurrence of b in the trace comes after an occurrence of a
Before(a, b) ==
    \A j \in DOMAIN trace : trace[j] = b => \E i \in 1..(j - 1) : trace[i] = a

\* the effects on a remote system: the maven deploy, the pushes, the uploads
\* and the transmission of the mail
RemoteMutations == DeployEvents \cup PushEvents \cup UploadEvents \cup {"email:sent"}

\* the steps that make the local release
LocalReleaseSteps ==
    {"commit:release", "issues:open", "artifact", "checksum", "commit:master",
     "merge:src", "tag", "commit:snapshot", "merge:master"}

\* C21: in a publishing run every mutation of a remote system comes after
\* the whole local release (version-bump commit, gate check, build with
\* artifact and checksum, master documentation commit, merge into the source
\* branch, tag, next-snapshot commit, merge into master); the uploads come
\* after the pushes and the mail is sent after the uploads.
C21_RemoteAfterLocalRelease ==
    ~dry_run =>
        /\ \A ev \in RemoteMutations, step \in LocalReleaseSteps : Before(step, ev)
        /\ \A ev \in PushEvents : \E b \in BuildEvents : Before(b, ev)
        /\ \A ev \in UploadEvents : Before("push:master", ev) /\ Before("push:tag", ev)
        /\ Before("upload:zip", "email:sent")

\* the same for the pushes, the uploads and the mail alone
C21_PushUploadMailInOrder ==
    ~dry_run =>
        /\ \A ev \in RemoteMutations \ DeployEvents, step \in LocalReleaseSteps :
              Before(step, ev)
        /\ \A ev \in UploadEvents : Before("push:master", ev) /\ Before("push:tag", ev)
        /\ Before("upload:zip", "email:sent")

\* where the tag is, once it is made
TagPlaced ==
    /\ Before("merge:src", "tag")
    /\ Before("tag", "commit:snapshot")
    /\ (Did("tag") /\ ~Did("tag:delete")) =>
          /\ ReleaseTag \in DOMAIN git.tags
          /\ git.tree[git.tags[ReleaseTag]].pom = release_version
          /\ \A i \in DOMAIN release_version : release_version[i] # SNAPSHOT
    /\ (success /\ ~Did("reset:src")) =>
          /\ git.tree[git.head[src_branch]].pom = snapshot_version \o <<SNAPSHOT>>
          /\ git.head[src_branch] > git.tags[ReleaseTag]

\* C22: the tag is made on the source branch after the merge of the
\* source-lineage release branch and before the next-snapshot commit; the
\* tagged commit carries the release version without -SNAPSHOT; the
\* next-snapshot commit is made on top of the tagged commit and is the head
\* of the source branch when the run succeeds.
C22_TagBetweenMergeAndSnapshot ==
    [][/\ TagPlaced'
       /\ (pc = "tag" /\ pc' = "next_snapshot") =>
             /\ git.cur = src_branch
             /\ git.head[src_branch] = git.head[SourceReleaseBranch]
             /\ git'.tags[ReleaseTag] = git.head[src_branch]
       /\ (pc = "next_snapshot" /\ pc' = "merge_master") =>
             /\ git.cur = src_branch
             /\ git.head[src_branch] = git.tags[ReleaseTag]
             /\ git'.head[src_branch] = Len(git.tree) + 1
             /\ git'.tags = git.tags]_vars

\* a publishing run that succeeded: the source branch is one commit past the tag
C22_Witness ==
    /\ pc = "cleanup" /\ success /\ ~dry_run
    /\ Did("tag") /\ Did("commit:snapshot")
    /\ git.head[src_branch] # git.tags[ReleaseTag]
    /\ git.tree[git.head[src_branch]].pom[Len(git.tree[git.head[src_branch]].pom)] = SNAPSHOT

\* the effects of the run since the next snapshot version was entered, that
\* is from the recording of the baselines on
FromBaseline ==
    IF Did("prompt:snapshot")
    THEN SubSeq(trace, 1 + (CHOOSE i \in DOMAIN trace : trace[i] = "prompt:snapshot"),
                Len(trace))
    ELSE <<>>

\* the local version-control operations of a release, in order
ExpectedVcs ==
    <<"checkout:master", "checkout:src",
      "checkout:master", "pull:master", "branch:master",
      "checkout:src", "pull:src", "branch:src",
      "commit:release",
      "checkout:release_master", "commit:master",
      "checkout:src", "merge:src", "tag", "commit:snapshot",
      "checkout:master", "merge:master">>
LocalVcs ==
    SelectSeq(FromBaseline, LAMBDA e : e \in {ExpectedVcs[i] : i \in DOMAIN ExpectedVcs})

\* every effect of a release up to the announce phase, the maven target and
\* the remote steps left out
ExpectedRun ==
    <<"checkout:master", "checkout:src", "mvn clean",
      "checkout:master", "pull:master", "branch:master",
      "checkout:src", "pull:src", "branch:src",
      "rewrite:pom", "rewrite:readme", "commit:release", "prompt:build",
      "issues:open", "build", "artifact", "checksum",
      "checkout:release_master", "rewrite:readme", "commit:master", "prompt:finish",
      "checkout:src", "merge:src", "tag",
      "rewrite:pom", "rewrite:readme", "commit:snapshot",
      "checkout:master", "merge:master",
      "issues:closed", "prompt:email", "email:saved">>
ModeDependent ==
    PushEvents \cup UploadEvents \cup {"skip:push", "skip:upload", "email:sent"}
LocalRun ==
    LET kept == SelectSeq(FromBaseline, LAMBDA e : e \notin ModeDependent)
    IN  [i \in DOMAIN kept |-> IF kept[i] \in BuildEvents THEN "build" ELSE kept[i]]

\* the run has not entered the rollback, the reset of a dry run or the cleanup
BeforeReset == pc \notin {"dry_reset", "cleanup", "exit"} \/ exit_status = 255

\* C23: whatever the mode, the local version-control operations performed
\* since the baselines are the same sequence, cut where a command failed and
\* complete once the publish phase is reached; apart from the maven target,
\* the push, the upload and the transmission of the mail, so is every other
\* effect of the run.
C23_SameLocalSequence ==
    BeforeReset =>
        /\ IsPrefix(LocalVcs, ExpectedVcs)
        /\ pc \in {"push", "publish", "prepare_email", "confirm_email", "send_email",
                   "succeed"} => LocalVcs = ExpectedVcs
        /\ LocalRun \in {ExpectedRun, SubSeq(ExpectedRun, 1, Len(LocalRun)),
                         SubSeq(ExpectedRun, 1, Len(LocalRun) - 1)
                             \o <<"issues:closed:error">>}
        /\ pc = "succeed" => LocalRun = ExpectedRun

\* a dry run at the publish phase, the push skipped
C23_Witness ==
    /\ pc = "publish" /\ dry_run /\ Did("skip:push")
    /\ LocalVcs = ExpectedVcs

\* a publishing run at the publish phase, the push done
C23_WitnessPublishing ==
    /\ pc = "publish" /\ ~dry_run /\ Did("push:tag")
    /\ LocalVcs = ExpectedVcs

\* the uploads made so far, in order
Uploads == SelectSeq(trace, LAMBDA e : e \in UploadEvents)

\* C24: the checksum is generated only after the artifact was found, and
\* nothing is uploaded unless both happened: if the artifact is absent the
\* run fails with no checksum and no upload; the uploads are the checksum
\* file first and the artifact second, each at most once.
C24_ChecksumThenArtifact ==
    /\ Before("artifact", "checksum")
    /\ \A ev \in UploadEvents : Before("checksum", ev)
    /\ ~Did("artifact") => (~Did("checksum") /\ Uploads = <<>>)
    /\ IsPrefix(Uploads, <<"upload:sha1", "upload:zip">>)
    /\ pc = "prepare_email" => (dry_run \/ Uploads = <<"upload:sha1", "upload:zip">>)

\* a publishing run that uploaded both files
C24_Witness ==
    /\ pc = "prepare_email" /\ ~dry_run
    /\ Did("artifact") /\ Did("checksum")
    /\ Uploads = <<"upload:sha1", "upload:zip">>

\* C25: missing optional credentials never abort a run: a dry run passes the
\* checks made before the release whatever the environment holds, and so
\* does a publishing run that has the credentials it needs, with or without
\* those of the issue tracker, whose absence only adds a warning to the log;
\* in a dry run the skipped upload and the mail saved on disk never fail.
C25_OptionalCredentials ==
    [][/\ (pc = "main" /\ ~args.check /\ src_branch # MASTER /\ dry_run)
             => pc' = "discover"
       /\ (pc = "main" /\ ~args.check /\ src_branch # MASTER /\ ~dry_run
              /\ env.AWS /\ (args.mail => env.MAIL_SENDER))
             => pc' = "confirm_publish"
       /\ (pc = "discover" /\ ~env.GITHUB) => trace' = trace \o <<"warn:github">>
                                            \/ trace' = trace \o <<"warn:github", "checkout:src">>
       /\ (pc = "discover" /\ env.GITHUB) => ~Did("warn:github")'
       /\ (pc = "publish" /\ dry_run) => pc' = "prepare_email"
       /\ (pc = "send_email" /\ dry_run) => (pc' = "succeed" /\ Did("email:saved")')]_vars

\* a dry run without any credential has been through the announce phase
C25_Witness ==
    /\ pc = "succeed" /\ dry_run
    /\ ~env.AWS /\ ~env.MAIL_SENDER /\ ~env.GITHUB /\ args.mail
    /\ Did("warn:github") /\ Did("email:saved")

\* C26: a run interrupted at a prompt after both release branches were
\* created, and in which no command failed afterwards, ends with master and
\* the source branch at their baselines, the tag removed and both release
\* branches deleted.
C26_InterruptRollsBack ==
    (pc = "exit" /\ exc = "KeyboardInterrupt" /\ Did("branch:src")
        /\ ~Did("tag:delete:error")) =>
        /\ AtBaselines
        /\ ReleaseTag \notin DOMAIN git.tags
        /\ MasterReleaseBranch \notin DOMAIN git.head
        /\ SourceReleaseBranch \notin DOMAIN git.head

\* the same, the prompt before the reset of a dry run left aside
C26_InterruptBeforeSuccess ==
    ~success => C26_InterruptRollsBack

\* the phases of a run, in the order of the script
Phases ==
    <<"load", "main", "confirm_publish", "discover", "ask_snapshot", "baseline", "clean",
      "branch_master", "branch_src", "bump", "confirm_build", "gate", "build",
      "artifacts", "master_doc", "confirm_finish", "merge_src", "tag", "next_snapshot",
      "merge_master", "push", "publish", "prepare_email", "confirm_email", "send_email",
      "succeed", "finally", "dry_reset", "cleanup", "exit">>
PhaseRank(l) == CHOOSE i \in DOMAIN Phases : Phases[i] = l

\* C27: every step moves the run to a later phase, so that no phase is passed
\* twice and no step is retried, and a run that has recorded its baselines
\* reaches the exit from the cleanup only, after the success or the rollback.
C27_EachPhaseOnceThenCleanup ==
    [][/\ PhaseRank(pc') > PhaseRank(pc)
       /\ (pc' = "exit" /\ PhaseRank(pc) > PhaseRank("baseline")) => pc = "cleanup"]_vars

\* the part of C27 that is about termination alone: no phase is passed twice,
\* and a run whose steps are all eventually taken reaches the exit
C27_EachPhaseOnce ==
    [][PhaseRank(pc') > PhaseRank(pc)]_vars
SpecFair == Spec /\ WF_vars(Next)
C27_Terminates == <>(pc = "exit")

\* the fan-out is reached once 'mvn clean' has run; the two branch names
FanOutReached == Did("mvn clean")
BranchNamesDistinct ==
    FanOutReached =>
        /\ src_branch # MASTER
        /\ release_branch(MASTER, release_version) # release_branch(src_branch, release_version)
        /\ Did("branch:master") /\ PhaseRank(pc) <= PhaseRank("cleanup")
              => release_branch(MASTER, release_version) \in DOMAIN git.head
        /\ Did("branch:src") /\ PhaseRank(pc) <= PhaseRank("cleanup")
              => release_branch(src_branch, release_version) \in DOMAIN git.head

\* C28: in a run that reaches the fan-out the source branch is not master
\* and the two release branch names differ; the creation of the second
\* branch finds its name free and leaves the first branch alone; each merge
\* brings a branch to the head of the release branch created from it.
C28_ReleaseBranchesDistinct ==
    [][/\ BranchNamesDistinct'
       /\ (pc = "branch_src" /\ pc' = "bump") =>
             /\ release_branch(src_branch, release_version) \notin DOMAIN git.head
             /\ git'.cur = release_branch(src_branch, release_version)
             /\ git'.head[release_branch(MASTER, release_version)]
                   = git.head[release_branch(MASTER, release_version)]
       /\ (pc = "merge_src" /\ pc' = "tag") =>
             /\ git'.head[src_branch] = git.head[release_branch(src_branch, release_version)]
             /\ git'.head[MASTER] = git.head[MASTER]
       /\ (pc = "merge_master" /\ pc' = "push") =>
             /\ git'.head[MASTER] = git.head[release_branch(MASTER, release_version)]
             /\ git'.head[src_branch] = git.head[src_branch]]_vars

\* both release branches exist, under different names and at different heads
C28_Witness ==
    /\ pc = "tag"
    /\ release_branch(MASTER, release_version) \in DOMAIN git.head
    /\ release_branch(src_branch, release_version) \in DOMAIN git.head
    /\ git.head[release_branch(MASTER, release_version)]
          # git.head[release_branch(src_branch, release_version)]
    /\ git.head[src_branch] = git.head[release_branch(src_branch, release_version)]

\* ---- lines 526-530 and 553-556: the four queries of prepare_email, run on
\* a repository of closed issues, each issue being the set of its labels
SeverityLabels == <<"bug", "update", "new", "doc">>
IssueLabels == {SeverityLabels[i] : i \in DOMAIN SeverityLabels} \cup {"2.5.0"}
Repositories == UNION {[1..n -> SUBSET IssueLabels] : n \in 0..MaxIssues}

\* lines 526-530: iter_issues(state='closed', labels='<severity>,<version>')
\* yields the issues that carry every label of the list
list_issues_of_any_version(version, repository, severity) ==
    SelectSeq([i \in DOMAIN repository |-> i],
              LAMBDA i : severity \in repository[i])
list_issues(version, repository, severity) ==
    SelectSeq([i \in DOMAIN repository |-> i],
              LAMBDA i : {severity, version} \subseteq repository[i])

InitIssues ==
    /\ NotReleasing
    /\ \E repository \in Repositories :
          fn = [op |-> "prepare_email", release_version |-> "2.5.0",
                repository |-> repository, queried |-> 0,
                issues |-> [k \in DOMAIN SeverityLabels |-> <<>>]]

\* lines 553-556: issues_bug, issues_update, issues_new, issues_doc
ListIssues ==
    /\ fn.queried < Len(SeverityLabels)
    /\ fn' = [fn EXCEPT !.queried = fn.queried + 1,
                        !.issues[fn.queried + 1] =
                            list_issues(fn.release_version, fn.repository,
                                        SeverityLabels[fn.queried + 1])]
    /\ ReleaseUnchanged

NextIssues == ListIssues

SpecIssues == InitIssues /\ [][NextIssues]_vars

\* the issues of group k, and the issues that carry two severity labels
\* together with the label of the release
Group(k) == {fn.issues[k][j] : j \in DOMAIN fn.issues[k]}
TwiceLabelled ==
    {i \in DOMAIN fn.repository :
        /\ fn.release_version \in fn.repository[i]
        /\ \E k, l \in DOMAIN SeverityLabels :
              k # l /\ {SeverityLabels[k], SeverityLabels[l]} \subseteq fn.repository[i]}

\* C29 as stated: once the four groups are built, no issue is in two of them.
C29_GroupsDisjoint ==
    fn.queried = Len(SeverityLabels) =>
        \A k, l \in DOMAIN SeverityLabels : k # l => Group(k) \cap Group(l) = {}

\* C29: each group holds, once each, the issues that carry its severity
\* label and the label of the release, so that an issue is in as many groups
\* as it carries severity labels: the groups are pairwise disjoint exactly
\* when no issue of the release carries two severity labels.
C29_GroupsByLabel ==
    fn.queried = Len(SeverityLabels) =>
        /\ \A k \in DOMAIN SeverityLabels :
              /\ Group(k) = {i \in DOMAIN fn.repository :
                                /\ SeverityLabels[k] \in fn.repository[i]
                                /\ "2.5.0" \in fn.repository[i]}
              /\ Len(fn.issues[k]) = Cardinality(Group(k))
        /\ (\A k, l \in DOMAIN SeverityLabels : k # l => Group(k) \cap Group(l) = {})
              <=> TwiceLabelled = {}

\* issue 1 is a bug and an update of the release, issue 2 is a bug of
\* another release: issue 1 is in two groups, issue 2 in none
C29_Witness ==
    /\ fn.queried = Len(SeverityLabels)
    /\ Len(fn.repository) = 2
    /\ fn.repository[1] = {"bug", "update", "2.5.0"}
    /\ fn.repository[2] = {"bug"}
    /\ Group(1) = {1} /\ Group(2) = {1} /\ Group(3) = {} /\ Group(4) = {}

====
